---- MODULE Spec2Model ----
(***************************************************************************)
(* Client update protocol of a6hub's real-time build progress subsystem.   *)
(*                                                                         *)
(*  - useJobWebSocket  (frontend/hooks/useBuildWebSocket.ts, lines 97-285) *)
(*    a React hook owning a browser WebSocket, a reconnect timer and a     *)
(*    keep-alive interval;                                                 *)
(*  - BuildWebSocket (lib/websocket.ts) as useBuildWebSocket drives it;    *)
(*  - the state of the build page and of its predecessor under the frames  *)
(*    their hooks hand them;                                               *)
(*  - the worker process: Step Detector and Progress Publisher;            *)
(*  - one API process: Subscription Relay and Connection Multiplexer.      *)
(* The machines run under their own specifications (Spec,                  *)
(* SpecBuildWebSocket, SpecBuildPage, SpecWorker, SpecApi); each leaves    *)
(* the others' variables alone.  SpecClients runs the client of whichever  *)
(* page is mounted.  The backend's Python sources are not part             *)
(* of the tree at hand: worker and API process follow the design document, *)
(* with the step table and the publish cadence of the implementation notes.*)
(*                                                                         *)
(* A browser WebSocket is modelled by its readyState.  The hook keeps one  *)
(* reference (wsRef); a socket the hook no longer references but whose     *)
(* handlers are still attached is kept in the bag `strays`.  Handlers and  *)
(* timer callbacks are closures: they see the `enabled` value of the       *)
(* render whose connect() created them (Closure), not the current one.     *)
(***************************************************************************)
EXTENDS Integers, Sequences, FiniteSets, TLC

(* ----------------------------- constants ------------------------------ *)
maxReconnectAttempts == 5
reconnectDelay == 3000

\* close codes a close event can carry: normal closure, connection lost
\* (preceded by an error event), server-side error close frame
NormalClosure == 1000
AbnormalCodes == {1006, 1011}

(* ------------------------------- bounds ------------------------------- *)
\* live sockets that wsRef does not reference, per readyState
MaxStray == 1
\* pending reconnect timers that reconnectTimeoutRef does not reference
MaxStrayTimers == 1

StrayKinds == {"CONNECTING", "OPEN", "CLOSING_C", "CLOSING_O"}

VARIABLES
  mounted,              \* the component using the hook is mounted
  enabled,              \* `enabled` option of the latest render
  token,                \* localStorage holds an authentication token
  isConnected,          \* React state
  connectionError,      \* React state
  wsRef,                \* readyState of wsRef.current, or "null"
  strays,               \* StrayKinds -> number of unreferenced live sockets
  reconnectTimeoutRef,  \* "null", "pending" or "fired" (stale id)
  strayTimers,          \* pending timers no longer referenced
  reconnectAttempts,    \* reconnectAttemptsRef.current
  pingInterval,         \* the keep-alive interval is installed
  \* observation of the last step
  lastOp,               \* handler that ran last
  lastCode,             \* close code of the last close event, 0 otherwise
  lastNew,              \* the last step constructed a WebSocket
  lastPing,             \* the last keep-alive tick sent a 'ping' frame
  lastFrame,            \* the frame the last step received: did JSON.parse accept
                        \* it, and the callback ws.onmessage invoked for it
  delays,               \* delays of the timers scheduled since the counter was 0
  autoAttempts,         \* sockets constructed by timer callbacks since then
  failureRun            \* only failing attempts since the mount's connect()

hookVars == <<mounted, enabled, token, isConnected, connectionError, wsRef,
              strays, reconnectTimeoutRef, strayTimers, reconnectAttempts,
              pingInterval>>
obsVars == <<lastOp, lastCode, lastNew, lastPing, lastFrame, delays, autoAttempts,
            failureRun>>

\* BuildWebSocket (lib/websocket.ts), one instance as useBuildWebSocket drives it
VARIABLES
  bws_ws,                 \* readyState of this.ws, or "null"
  bws_strays,             \* live sockets this.ws no longer references
  bws_callbacks,          \* number of callbacks in this.callbacks
  bws_reconnectAttempts,  \* this.reconnectAttempts
  bws_shouldReconnect,    \* this.shouldReconnect
  bws_timers,             \* pending setTimeout(() => this.connect(), delay)
  bws_lastOp,             \* handler that ran last
  bws_lastCode,           \* close code of the last close event, 0 otherwise
  bws_lastNew,            \* the last step constructed a WebSocket
  bws_lastFrame,          \* the frame the last step received: did JSON.parse accept
                          \* it, and how many callbacks this.ws.onmessage invoked
  bws_delays,             \* delays of the timers scheduled since the counter was 0
  ubw_isConnected,        \* useBuildWebSocket: React state isConnected
  ubw_lastMessage         \* useBuildWebSocket: type of lastMessage, or "null"

bwsVars == <<bws_ws, bws_strays, bws_callbacks, bws_reconnectAttempts,
             bws_shouldReconnect, bws_timers, bws_lastOp, bws_lastCode,
             bws_lastNew, bws_lastFrame, bws_delays, ubw_isConnected, ubw_lastMessage>>

\* the build page (app/projects/[id]/build/page.tsx) and its predecessor
\* that uses useBuildWebSocket
VARIABLES
  pg_kind,      \* "job": BuildPage on useJobWebSocket; "legacy": on useBuildWebSocket
  page,         \* React state: buildStatus, buildLogs, currentStep, showLogs
  pg_loads,     \* loadBuildStatus() requests in flight
  pg_socket,    \* a socket of the page's hook is open with its handlers attached
  pg_started,   \* startBuild() has started a build from this page
  pg_lastMsg,   \* the message delivered by the last step, NoMsg otherwise
  pg_call,      \* the callback useJobWebSocket invoked for pg_lastMsg, with its arguments
  pg_once,      \* the state right after the first delivery of pg_lastMsg
  pg_repeat     \* the last step delivered pg_lastMsg for the second time in a row

pageVars == <<pg_kind, page, pg_loads, pg_socket, pg_started, pg_lastMsg, pg_call, pg_once, pg_repeat>>

\* the worker process: run_build with the Progress Publisher (tasks.py)
VARIABLES
  job,              \* the persisted Job record
  previous_index,   \* step index the publisher threads through the detector
  accumulated,      \* lines accumulated by the rate limiter since the last emission
  emitted,          \* step indices of the transitions emitted so far
  script,           \* n: the lines fed so far are the first n of ScriptLines; -1 otherwise
  wk_last           \* observation of the publisher's last step

workerVars == <<job, previous_index, accumulated, emitted, script, wk_last>>

\* one API process and the viewers of one job: ConnectionManager
\* (websockets/manager.py), the endpoint (api/v1/websocket.py), the relay
VARIABLES
  active_connections,  \* the connections registered for the job
  conn,                \* per connection: "new", "rejected", "registered", "connected",
                       \* "closed", "removed" (after a failed send)
  transport,           \* per connection: the transport can still carry a frame
  first,               \* per connection: the type of the first event it received, if any
  subscribed,          \* the relay holds the subscription to the job's channel
  viewers,             \* the relay's reference count for the job
  store,               \* the Job record in the Job store, as connect() reads it
  channel,             \* broker messages on their way to the relay
  broadcast,           \* the broadcast in progress, if any
  terminalDone         \* a complete or error event has been broadcast

apiVars == <<active_connections, conn, transport, first, subscribed,
             viewers, store, channel, broadcast, terminalDone>>

vars == <<hookVars, obsVars, bwsVars, pageVars, workerVars, apiVars>>

(* ------------------------- useJobWebSocket ----------------------------- *)
NoError == "null"
NoTokenError == "No authentication token found"
SocketError == "WebSocket connection error"
ReconnectFailed == "Failed to reconnect after multiple attempts"

\* the refs and state of the hook as one value, so that a handler that calls
\* another (the effect calls disconnect() and connect()) composes
Hook ==
  [isConnected |-> isConnected, connectionError |-> connectionError,
   wsRef |-> wsRef, strays |-> strays,
   reconnectTimeoutRef |-> reconnectTimeoutRef, strayTimers |-> strayTimers,
   reconnectAttempts |-> reconnectAttempts, delays |-> delays, created |-> FALSE]

\* a socket leaves wsRef while still alive
Orphan(st, kind) == [st EXCEPT ![kind] = @ + 1]

\* connect() of a render whose `enabled` option is en
connect(h, en) ==
  IF ~en \/ h.wsRef = "OPEN" THEN h
  ELSE IF ~token THEN [h EXCEPT !.connectionError = NoTokenError]
  ELSE [h EXCEPT !.wsRef = "CONNECTING",
                 !.strays = IF h.wsRef = "CONNECTING" THEN Orphan(@, "CONNECTING") ELSE @,
                 !.created = TRUE]

\* disconnect(): clearTimeout, close(1000, 'Client disconnect'), setIsConnected(false).
\* close() on a CONNECTING socket fails the connection: its close event carries 1006
disconnect(h) ==
  [h EXCEPT !.reconnectTimeoutRef = "null",
            !.wsRef = "null",
            !.strays = IF h.wsRef = "CONNECTING" THEN Orphan(@, "CLOSING_C")
                       ELSE IF h.wsRef = "OPEN" THEN Orphan(@, "CLOSING_O") ELSE @,
            !.isConnected = FALSE]

\* an open that leaves the attempt counter as it is
onopen_KeepAttempts(h) ==
  [h EXCEPT !.isConnected = TRUE, !.connectionError = NoError]

\* ws.onopen
onopen(h) ==
  [h EXCEPT !.isConnected = TRUE, !.connectionError = NoError,
            !.reconnectAttempts = 0, !.delays = <<>>]

\* ws.onerror
onerror(h) == [h EXCEPT !.connectionError = SocketError]

\* a fixed delay instead of one that grows with the attempt number
ReconnectDelayOf_Fixed(n) == reconnectDelay

\* delay of the reconnect timer scheduled as attempt number n
ReconnectDelayOf(n) == reconnectDelay * n

\* the reconnect test of ws.onclose; en is the closure's `enabled`
ShouldReconnect(code, en, attempts) ==
  code # NormalClosure /\ en /\ attempts < maxReconnectAttempts

\* ws.onclose of any socket created by a connect() whose `enabled` is en.
\* It clears wsRef whichever socket wsRef refers to; the caller has moved a
\* socket that wsRef still referenced into strays.
onclose(h, code, en) ==
  LET h1 == [h EXCEPT !.isConnected = FALSE, !.wsRef = "null"] IN
  IF ShouldReconnect(code, en, h.reconnectAttempts)
  THEN [h1 EXCEPT !.reconnectAttempts = @ + 1,
                  !.delays = Append(@, ReconnectDelayOf(h.reconnectAttempts + 1)),
                  !.strayTimers = IF h.reconnectTimeoutRef = "pending" THEN @ + 1 ELSE @,
                  !.reconnectTimeoutRef = "pending"]
  ELSE IF h.reconnectAttempts >= maxReconnectAttempts
  THEN [h1 EXCEPT !.connectionError = ReconnectFailed]
  ELSE h1

\* sendPing(): a frame goes out only on an OPEN referenced socket
sendPing(h) == h.wsRef = "OPEN"

\* every connect() that constructs a socket belongs to a render with enabled = TRUE
\* (line 118 returns otherwise), so the handlers and the timer callback of every
\* socket see enabled = TRUE whatever the current render says
Closure == TRUE

Bounded(h) ==
  /\ \A k \in StrayKinds : h.strays[k] <= MaxStray
  /\ h.strayTimers <= MaxStrayTimers

\* React drops state updates of an unmounted component; refs are plain objects
Commit(h) ==
  /\ Bounded(h)
  /\ isConnected' = (IF mounted THEN h.isConnected ELSE isConnected)
  /\ connectionError' = (IF mounted THEN h.connectionError ELSE connectionError)
  /\ wsRef' = h.wsRef
  /\ strays' = h.strays
  /\ reconnectTimeoutRef' = h.reconnectTimeoutRef
  /\ strayTimers' = h.strayTimers
  /\ reconnectAttempts' = h.reconnectAttempts
  /\ delays' = h.delays
  /\ lastNew' = h.created

\* no frame was received
NoFrame == [valid |-> FALSE, cb |-> "none"]

Observe(op, code, ping) ==
  /\ lastOp' = op
  /\ lastCode' = code
  /\ lastPing' = ping
  /\ lastFrame' = NoFrame
  /\ UNCHANGED <<bwsVars, pageVars, workerVars, apiVars>>

HookInit ==
  /\ mounted = TRUE
  /\ enabled \in BOOLEAN
  /\ token \in BOOLEAN
  /\ LET h0 == [isConnected |-> FALSE, connectionError |-> NoError, wsRef |-> "null",
                strays |-> [k \in StrayKinds |-> 0], reconnectTimeoutRef |-> "null",
                strayTimers |-> 0, reconnectAttempts |-> 0, delays |-> <<>>,
                created |-> FALSE]
         h == connect(h0, enabled)
     IN /\ isConnected = h.isConnected
        /\ connectionError = h.connectionError
        /\ wsRef = h.wsRef
        /\ strays = h.strays
        /\ reconnectTimeoutRef = h.reconnectTimeoutRef
        /\ strayTimers = h.strayTimers
        /\ reconnectAttempts = h.reconnectAttempts
        /\ delays = h.delays
        /\ lastNew = h.created
        /\ failureRun = h.created
  /\ pingInterval = FALSE
  /\ lastOp = "mount"
  /\ lastCode = 0
  /\ lastPing = FALSE
  /\ lastFrame = NoFrame
  /\ autoAttempts = 0

\* a re-render; `fresh` says that a callback option (or jobId) changed identity,
\* which gives connect a new identity (useCallback deps, line 235).  The
\* connect/disconnect effect (257-266) re-runs when enabled or connect changed:
\* cleanup disconnect(), then connect() when enabled.  The keep-alive effect
\* (269-277) installs the interval from the isConnected of this render.
Render(e, fresh) ==
  /\ mounted
  /\ LET rerun == (e # enabled) \/ fresh
         h == IF rerun THEN connect(disconnect(Hook), e) ELSE Hook
     IN /\ Commit(h)
        /\ failureRun' = (failureRun /\ ~rerun)
  /\ enabled' = e
  /\ pingInterval' = isConnected
  /\ Observe("render", 0, FALSE)
  /\ UNCHANGED <<mounted, token, autoAttempts>>

\* unmount: both effect cleanups run
Unmount ==
  /\ mounted
  /\ Commit(disconnect(Hook))
  /\ mounted' = FALSE
  /\ pingInterval' = FALSE
  /\ failureRun' = FALSE
  /\ Observe("unmount", 0, FALSE)
  /\ UNCHANGED <<enabled, token, autoAttempts>>

\* the caller invokes the returned `reconnect` (connect of the latest render)
Reconnect ==
  /\ mounted
  /\ Commit(connect(Hook, enabled))
  /\ failureRun' = FALSE
  /\ Observe("reconnect", 0, FALSE)
  /\ UNCHANGED <<mounted, enabled, token, pingInterval, autoAttempts>>

\* open event of the referenced socket
OpenRef ==
  /\ wsRef = "CONNECTING"
  /\ Commit(onopen([Hook EXCEPT !.wsRef = "OPEN"]))
  /\ autoAttempts' = 0
  /\ failureRun' = FALSE
  /\ Observe("open", 0, FALSE)
  /\ UNCHANGED <<mounted, enabled, token, pingInterval>>

\* open event of a socket the hook no longer references
OpenStray ==
  /\ strays["CONNECTING"] > 0
  /\ Commit(onopen([Hook EXCEPT !.strays["CONNECTING"] = @ - 1, !.strays["OPEN"] = @ + 1]))
  /\ autoAttempts' = 0
  /\ failureRun' = FALSE
  /\ Observe("open", 0, FALSE)
  /\ UNCHANGED <<mounted, enabled, token, pingInterval>>

\* codes the close event of a socket in a given state can carry
CodesOf(state) ==
  CASE state = "CONNECTING" -> {1006}
    [] state = "OPEN" -> {NormalClosure} \cup AbnormalCodes
    [] state = "CLOSING_C" -> {1006}
    [] state = "CLOSING_O" -> {NormalClosure, 1006}

\* a lost connection (1006) fires the error event before the close event
Closed(h, code) ==
  onclose(IF code = 1006 THEN onerror(h) ELSE h, code, Closure)

\* close event of the referenced socket (server close or connection failure)
CloseRef(code) ==
  /\ wsRef # "null"
  /\ code \in CodesOf(wsRef)
  /\ Commit(Closed(Hook, code))
  /\ failureRun' = (failureRun /\ code # NormalClosure)
  /\ Observe("close", code, FALSE)
  /\ UNCHANGED <<mounted, enabled, token, pingInterval, autoAttempts>>

\* close event of an unreferenced socket; its onclose still clears wsRef, so a
\* socket referenced at that moment becomes unreferenced
CloseStray(kind, code) ==
  /\ strays[kind] > 0
  /\ code \in CodesOf(kind)
  /\ LET st == [strays EXCEPT ![kind] = @ - 1]
         h == [Hook EXCEPT !.strays = IF wsRef = "null" THEN st ELSE Orphan(st, wsRef)]
     IN Commit(Closed(h, code))
  /\ failureRun' = FALSE
  /\ Observe("close", code, FALSE)
  /\ UNCHANGED <<mounted, enabled, token, pingInterval, autoAttempts>>

\* the timer referenced by reconnectTimeoutRef fires: connect() of its closure
TimerRef ==
  /\ reconnectTimeoutRef = "pending"
  /\ LET h == connect([Hook EXCEPT !.reconnectTimeoutRef = "fired"], Closure)
     IN /\ Commit(h)
        /\ autoAttempts' = IF h.created THEN autoAttempts + 1 ELSE autoAttempts
  /\ Observe("timer", 0, FALSE)
  /\ UNCHANGED <<mounted, enabled, token, pingInterval, failureRun>>

\* a timer that a later setTimeout displaced from reconnectTimeoutRef fires
TimerStray ==
  /\ strayTimers > 0
  /\ LET h == connect([Hook EXCEPT !.strayTimers = @ - 1], Closure)
     IN /\ Commit(h)
        /\ autoAttempts' = IF h.created THEN autoAttempts + 1 ELSE autoAttempts
  /\ Observe("timer", 0, FALSE)
  /\ UNCHANGED <<mounted, enabled, token, pingInterval, failureRun>>

\* the keep-alive interval fires: sendPing()
Tick ==
  /\ pingInterval
  /\ Observe("tick", 0, sendPing(Hook))
  /\ lastNew' = FALSE
  /\ UNCHANGED <<hookVars, delays, autoAttempts, failureRun>>

\* an optional value: None (undefined or null) or Some(v)
None == <<>>
Some(v) == <<v>>
\* JavaScript truthiness of an optional string
Truthy(o) == o # None /\ o[1] # ""
\* o || d
OrElse(o, d) == IF Truthy(o) THEN o[1] ELSE d

\* JobUpdate.data with every field undefined
NoData ==
  [status |-> None, progress |-> None, current_step |-> None, completed_steps |-> None,
   log_line |-> None, step_name |-> None, step_label |-> None, message |-> None,
   error_message |-> None]

JobUpdate(type, data) == [type |-> type, data |-> data, valid |-> TRUE]
NoMsg == [type |-> "none", data |-> NoData, valid |-> FALSE]

\* frames the server can send to useJobWebSocket; valid = FALSE is a frame
\* that JSON.parse rejects
JobUpdates ==
  {JobUpdate("connected", NoData), JobUpdate("pong", NoData),
   [type |-> "garbage", data |-> NoData, valid |-> FALSE]}
  \cup {JobUpdate("status", [NoData EXCEPT !.status = st]) :
          st \in {None, Some("running"), Some("completed"), Some("failed")}}
  \cup {JobUpdate("progress", [NoData EXCEPT !.progress = pr, !.current_step = cs,
                                              !.completed_steps = done]) :
          pr \in {None, Some(0), Some(45)},
          cs \in {None, Some("synthesis")},
          done \in {None, Some(<<>>), Some(<<"synthesis">>)}}
  \cup {JobUpdate("log", [NoData EXCEPT !.log_line = l]) :
          l \in {None, Some(""), Some("line")}}
  \cup {JobUpdate("step", [NoData EXCEPT !.step_name = n, !.step_label = l]) :
          n \in {None, Some("synthesis")}, l \in {None, Some("Synthesis")}}
  \cup {JobUpdate("complete", [NoData EXCEPT !.status = st, !.message = Some("done")]) :
          st \in {None, Some("completed"), Some("failed")}}
  \cup {JobUpdate("error", [NoData EXCEPT !.error_message = e]) :
          e \in {None, Some("boom")}}

NoCall == [cb |-> "none", args |-> <<>>]

\* ws.onmessage of useJobWebSocket: the callback it invokes and the arguments
onmessage(m) ==
  IF ~m.valid THEN NoCall
  ELSE CASE m.type = "status" ->
              IF Truthy(m.data.status)
              THEN [cb |-> "onStatusChange", args |-> <<m.data.status[1]>>] ELSE NoCall
         [] m.type = "progress" ->
              IF m.data.progress # None
              THEN [cb |-> "onProgressUpdate",
                    args |-> <<m.data.progress[1], OrElse(m.data.current_step, ""),
                               IF m.data.completed_steps # None
                               THEN m.data.completed_steps[1] ELSE <<>> >>]
              ELSE NoCall
         [] m.type = "log" ->
              IF Truthy(m.data.log_line)
              THEN [cb |-> "onLogUpdate", args |-> <<m.data.log_line[1]>>] ELSE NoCall
         [] m.type = "step" ->
              IF Truthy(m.data.step_name)
              THEN [cb |-> "onStepChange",
                    args |-> <<m.data.step_name[1],
                               OrElse(m.data.step_label, m.data.step_name[1])>>]
              ELSE NoCall
         [] m.type = "complete" ->
              IF Truthy(m.data.status)
              THEN [cb |-> "onComplete", args |-> <<m.data.status[1], m.data.message>>]
              ELSE NoCall
         [] m.type = "error" ->
              IF Truthy(m.data.error_message)
              THEN [cb |-> "onError", args |-> <<m.data.error_message[1]>>] ELSE NoCall
         [] OTHER -> NoCall

\* the frames the hook is fed on its own: one that JSON.parse rejects, one
\* without a callback, and the log frames (absent, empty and non-empty line)
Frames == {m \in JobUpdates : m.type \in {"garbage", "connected", "log"}}

\* the catch block of ws.onmessage closing the socket on a malformed frame
onparseerror_Close(h) == disconnect(h)

\* the catch block of ws.onmessage: console.error, nothing else
onparseerror(h) == h

\* a frame arrives on an open socket of the hook, referenced or not: its
\* ws.onmessage runs.  It touches no state and no ref of the hook
Message(m) ==
  /\ wsRef = "OPEN" \/ strays["OPEN"] > 0
  /\ Commit(IF m.valid THEN Hook ELSE onparseerror(Hook))
  /\ lastOp' = "message"
  /\ lastCode' = 0
  /\ lastPing' = FALSE
  /\ lastFrame' = [valid |-> m.valid, cb |-> onmessage(m).cb]
  /\ UNCHANGED <<mounted, enabled, token, pingInterval, autoAttempts, failureRun>>
  /\ UNCHANGED <<bwsVars, pageVars, workerVars, apiVars>>

(* --------------------------- BuildWebSocket ---------------------------- *)
bws_maxReconnectAttempts == 5
bws_reconnectDelay == 1000

BwsStrayKinds == {"CONNECTING", "OPEN", "CLOSING"}

Bws ==
  [ws |-> bws_ws, strays |-> bws_strays, callbacks |-> bws_callbacks,
   reconnectAttempts |-> bws_reconnectAttempts, shouldReconnect |-> bws_shouldReconnect,
   timers |-> bws_timers, delays |-> bws_delays, created |-> FALSE]

RECURSIVE Pow2(_)
Pow2(n) == IF n <= 0 THEN 1 ELSE 2 * Pow2(n - 1)

\* BuildWebSocket.connect(): constructs a socket unconditionally; a socket
\* this.ws still referenced stays alive with its handlers
bws_connect(b) ==
  [b EXCEPT !.ws = "CONNECTING",
            !.strays = IF b.ws = "null" THEN @ ELSE Orphan(@, b.ws),
            !.created = TRUE]

\* this.ws.onopen
bws_onopen(b) == [b EXCEPT !.reconnectAttempts = 0, !.delays = <<>>]

\* delay of the timer scheduled as attempt number n
bws_delay(n) == bws_reconnectDelay * Pow2(n - 1)

\* this.ws.onclose: the close event's code is not looked at
bws_onclose(b, code) ==
  LET b1 == [b EXCEPT !.ws = "null"] IN
  IF b.shouldReconnect /\ b.reconnectAttempts < bws_maxReconnectAttempts
  THEN [b1 EXCEPT !.reconnectAttempts = @ + 1,
                  !.delays = Append(@, bws_delay(b.reconnectAttempts + 1)),
                  !.timers = @ + 1]
  ELSE b1

\* BuildWebSocket.disconnect(): pending timers are not cleared
bws_disconnect(b) ==
  [b EXCEPT !.shouldReconnect = FALSE,
            !.ws = "null",
            !.strays = IF b.ws = "null" THEN @ ELSE Orphan(@, "CLOSING"),
            !.callbacks = 0]

\* this.ws.onmessage: number of callbacks invoked (none when JSON.parse throws)
bws_onmessage(b, validJson) == IF validJson THEN b.callbacks ELSE 0

BuildMessageTypes == {"connected", "status", "progress", "log", "complete", "error"}

BwsCommit(b) ==
  /\ bws_ws' = b.ws
  /\ bws_strays' = b.strays
  /\ bws_callbacks' = b.callbacks
  /\ bws_reconnectAttempts' = b.reconnectAttempts
  /\ bws_shouldReconnect' = b.shouldReconnect
  /\ bws_timers' = b.timers
  /\ bws_delays' = b.delays
  /\ bws_lastNew' = b.created

\* no frame was received
NoBwsFrame == [valid |-> FALSE, calls |-> 0]

BwsObserve(op, code) ==
  /\ bws_lastOp' = op
  /\ bws_lastCode' = code
  /\ bws_lastFrame' = NoBwsFrame
  /\ UNCHANGED <<hookVars, obsVars, pageVars, workerVars, apiVars>>

\* the useBuildWebSocket effect has constructed the instance, subscribed its
\* callback and called connect()
BwsInit ==
  /\ bws_ws = "CONNECTING"
  /\ bws_strays = [k \in BwsStrayKinds |-> 0]
  /\ bws_callbacks = 1
  /\ bws_reconnectAttempts = 0
  /\ bws_shouldReconnect = TRUE
  /\ bws_timers = 0
  /\ bws_delays = <<>>
  /\ bws_lastOp = "connect"
  /\ bws_lastCode = 0
  /\ bws_lastNew = TRUE
  /\ bws_lastFrame = NoBwsFrame
  /\ ubw_isConnected = FALSE
  /\ ubw_lastMessage = "null"

BwsOpenRef ==
  /\ bws_ws = "CONNECTING"
  /\ BwsCommit(bws_onopen([Bws EXCEPT !.ws = "OPEN"]))
  /\ BwsObserve("open", 0)
  /\ UNCHANGED <<ubw_isConnected, ubw_lastMessage>>

\* codes the close event of a socket in a given state can carry; close()
\* without a code gives 1005 when the server answers the close frame
BwsCodesOf(state) ==
  CASE state = "CONNECTING" -> {1006}
    [] state = "OPEN" -> {NormalClosure} \cup AbnormalCodes
    [] state = "CLOSING" -> {1005, 1006}

BwsCloseRef(code) ==
  /\ bws_ws # "null"
  /\ code \in BwsCodesOf(bws_ws)
  /\ BwsCommit(bws_onclose(Bws, code))
  /\ BwsObserve("close", code)
  /\ UNCHANGED <<ubw_isConnected, ubw_lastMessage>>

\* close event of a socket this.ws no longer references (closed by disconnect())
BwsCloseStray(kind, code) ==
  /\ bws_strays[kind] > 0
  /\ code \in BwsCodesOf(kind)
  /\ LET st == [bws_strays EXCEPT ![kind] = @ - 1]
         b == [Bws EXCEPT !.strays = IF bws_ws = "null" THEN st ELSE Orphan(st, bws_ws)]
     IN BwsCommit(bws_onclose(b, code))
  /\ BwsObserve("close", code)
  /\ UNCHANGED <<ubw_isConnected, ubw_lastMessage>>

\* a reconnect timer fires: this.connect()
BwsTimer ==
  /\ bws_timers > 0
  /\ BwsCommit(bws_connect([Bws EXCEPT !.timers = @ - 1]))
  /\ BwsObserve("timer", 0)
  /\ UNCHANGED <<ubw_isConnected, ubw_lastMessage>>

\* cleanup of the useBuildWebSocket effect: unsubscribe(); ws.disconnect();
\* setIsConnected(false)
BwsDisconnect ==
  /\ bws_shouldReconnect
  /\ BwsCommit(bws_disconnect([Bws EXCEPT !.callbacks = 0]))
  /\ BwsObserve("disconnect", 0)
  /\ ubw_isConnected' = FALSE
  /\ UNCHANGED ubw_lastMessage

\* a frame arrives on an open socket; the subscribed callback of
\* useBuildWebSocket stores it and sets isConnected on a 'connected' message
BwsMessage(type, validJson) ==
  /\ bws_ws = "OPEN"
  /\ BwsCommit(Bws)
  /\ bws_lastOp' = "message"
  /\ bws_lastCode' = 0
  /\ bws_lastFrame' = [valid |-> validJson, calls |-> bws_onmessage(Bws, validJson)]
  /\ UNCHANGED <<hookVars, obsVars, pageVars, workerVars, apiVars>>
  /\ IF bws_onmessage(Bws, validJson) > 0
     THEN /\ ubw_lastMessage' = type
          /\ ubw_isConnected' = (IF type = "connected" THEN TRUE ELSE ubw_isConnected)
     ELSE UNCHANGED <<ubw_isConnected, ubw_lastMessage>>

BwsNext ==
  \/ BwsOpenRef
  \/ \E code \in {NormalClosure, 1005} \cup AbnormalCodes : BwsCloseRef(code)
  \/ \E kind \in BwsStrayKinds, code \in {NormalClosure, 1005} \cup AbnormalCodes : BwsCloseStray(kind, code)
  \/ BwsTimer
  \/ BwsDisconnect
  \/ \E type \in BuildMessageTypes, validJson \in BOOLEAN : BwsMessage(type, validJson)

(* ------------------------------ BuildPage ------------------------------ *)
\* log lines a log text may hold
MaxLogLines == 2
\* loadBuildStatus() requests in flight at once
MaxLoads == 2

JobStatuses == {"pending", "running", "completed", "failed", "cancelled"}

\* buildStatus: NoStatus (null) or the BuildStatus record; a text is the
\* sequence of its lines
NoStatus == [status |-> "null"]
NoProgress == [none |-> TRUE]

\* setBuildStatus((prev) => prev ? { ...prev, status } : null)
onStatusChange(bs, status) ==
  IF bs = NoStatus THEN NoStatus ELSE [bs EXCEPT !.status = status]

\* progress added to the stored value instead of replacing it
onProgressUpdate_Accumulate(bs, progress, step, completedSteps) ==
  IF bs = NoStatus THEN NoStatus
  ELSE [bs EXCEPT !.current_step = Some(step),
                  !.progress_data =
                     [current_step |-> step,
                      progress_percent |->
                         IF bs.progress_data = NoProgress THEN progress
                         ELSE bs.progress_data.progress_percent + progress,
                      completed_steps |-> completedSteps,
                      steps_info |-> IF bs.progress_data = NoProgress THEN "empty"
                                     ELSE bs.progress_data.steps_info]]

\* BuildPage.onProgressUpdate
onProgressUpdate(bs, progress, step, completedSteps) ==
  IF bs = NoStatus THEN NoStatus
  ELSE [bs EXCEPT !.current_step = Some(step),
                  !.progress_data =
                     [current_step |-> step,
                      progress_percent |-> progress,
                      completed_steps |-> completedSteps,
                      steps_info |-> IF bs.progress_data = NoProgress THEN "empty"
                                     ELSE bs.progress_data.steps_info]]

\* the new line stored in place of the text
onLogUpdate_Replace(bs, logLine) ==
  IF bs = NoStatus THEN NoStatus ELSE [bs EXCEPT !.logs = Some(<<logLine>>)]

\* BuildPage.onLogUpdate: logs: (prev.logs || '') + logLine
onLogUpdate(bs, logLine) ==
  IF bs = NoStatus THEN NoStatus
  ELSE [bs EXCEPT !.logs = Some((IF bs.logs = None THEN <<>> ELSE bs.logs[1]) \o <<logLine>>)]

\* BuildPage.onComplete sets the status (and reloads the status, see PageMessage)
onComplete(bs, status) ==
  IF bs = NoStatus THEN NoStatus ELSE [bs EXCEPT !.status = status]

\* the page state after the callbacks of one frame have run
ApplyJobUpdate(pg, m) ==
  LET call == onmessage(m) IN
  CASE call.cb = "onStatusChange" ->
         [pg EXCEPT !.buildStatus = onStatusChange(@, call.args[1])]
    [] call.cb = "onProgressUpdate" ->
         [pg EXCEPT !.buildStatus = onProgressUpdate(@, call.args[1], call.args[2], call.args[3])]
    [] call.cb = "onLogUpdate" ->
         [pg EXCEPT !.buildStatus = onLogUpdate(@, call.args[1])]
    [] call.cb = "onComplete" ->
         [pg EXCEPT !.buildStatus = onComplete(@, call.args[1])]
    [] OTHER -> pg

\* frames the server can send to BuildWebSocket (BuildProgressMessage)
BuildMessage(type, status, step, message) ==
  [type |-> type, valid |-> TRUE,
   data |-> [NoData EXCEPT !.status = status, !.step_name = step, !.message = message]]

BuildMessages ==
  {BuildMessage("connected", None, None, None), BuildMessage("progress", None, None, None),
   [type |-> "garbage", data |-> NoData, valid |-> FALSE]}
  \cup {BuildMessage("status", st, step, None) :
          st \in {None, Some("running"), Some("failed")}, step \in {None, Some("synthesis")}}
  \cup {BuildMessage("log", None, None, l) : l \in {None, Some("line")}}
  \cup {BuildMessage("complete", None, None, None)}
  \cup {BuildMessage("error", None, None, e) : e \in {None, Some("boom")}}

\* handleBuildMessage of the page on useBuildWebSocket
handleBuildMessage(pg, m) ==
  CASE m.type = "status" ->
         [pg EXCEPT !.buildStatus = IF Truthy(m.data.status)
                                    THEN onStatusChange(@, m.data.status[1]) ELSE @,
                    !.currentStep = IF Truthy(m.data.step_name) THEN m.data.step_name[1] ELSE @]
    [] m.type = "log" ->
         [pg EXCEPT !.buildLogs = IF Truthy(m.data.message) THEN Append(@, m.data.message[1]) ELSE @]
    [] m.type = "complete" ->
         [pg EXCEPT !.buildStatus = onStatusChange(@, "completed"),
                    !.currentStep = "Build completed", !.showLogs = TRUE]
    [] m.type = "error" ->
         [pg EXCEPT !.buildStatus = onStatusChange(@, "failed"),
                    !.currentStep = "Build failed", !.showLogs = TRUE]
    [] OTHER -> pg

\* the frame as the page's callbacks see it
Deliver(kind, pg, m) ==
  IF kind = "job" THEN ApplyJobUpdate(pg, m)
  ELSE IF m.valid THEN handleBuildMessage(pg, m) ELSE pg

\* the `enabled` option both pages pass to their hook
Enabled(pg) == pg.buildStatus # NoStatus /\ pg.buildStatus.status = "running"

\* lines of the log texts the page holds
LogLines(pg) ==
  IF pg_kind = "legacy" THEN Len(pg.buildLogs)
  ELSE IF pg.buildStatus = NoStatus \/ pg.buildStatus.logs = None THEN 0
  ELSE Len(pg.buildStatus.logs[1])

\* what GET /builds/{id}/build/status can answer
Snapshots ==
  {[status |-> st, current_step |-> None, progress_data |-> NoProgress, logs |-> None] :
     st \in JobStatuses}
  \cup {[status |-> "running", current_step |-> Some("synthesis"),
         progress_data |-> [current_step |-> "synthesis", progress_percent |-> 45,
                            completed_steps |-> <<>>, steps_info |-> "server"],
         logs |-> Some(<<"line">>)]}

PageObserve(m, once, repeat) ==
  /\ pg_lastMsg' = m
  /\ pg_call' = (IF pg_kind = "job" THEN onmessage(m) ELSE NoCall)
  /\ pg_once' = once
  /\ pg_repeat' = repeat
  /\ UNCHANGED <<pg_kind, hookVars, obsVars, bwsVars, workerVars, apiVars>>

\* the page is mounted: state from useState, loadBuildStatus() of the mount effect
PageInit ==
  /\ pg_kind \in {"job", "legacy"}
  /\ page = [buildStatus |-> NoStatus, buildLogs |-> <<>>, currentStep |-> "",
             showLogs |-> FALSE]
  /\ pg_loads = 1
  /\ pg_socket = FALSE
  /\ pg_started = FALSE
  /\ pg_lastMsg = NoMsg
  /\ pg_call = NoCall
  /\ pg_once = page
  /\ pg_repeat = FALSE

\* loadBuildStatus() gets its answer: setBuildStatus(response.data)
LoadSucceeds(snap) ==
  /\ pg_loads > 0
  /\ pg_loads' = pg_loads - 1
  /\ page' = [page EXCEPT !.buildStatus = snap]
  /\ PageObserve(NoMsg, page', FALSE)
  /\ UNCHANGED <<pg_socket, pg_started>>

\* loadBuildStatus() fails: setBuildStatus(null)
LoadFails ==
  /\ pg_loads > 0
  /\ pg_loads' = pg_loads - 1
  /\ page' = [page EXCEPT !.buildStatus = NoStatus]
  /\ PageObserve(NoMsg, page', FALSE)
  /\ UNCHANGED <<pg_socket, pg_started>>

\* startBuild(): the request succeeded, loadBuildStatus() is under way
StartBuild ==
  /\ pg_loads < MaxLoads
  /\ pg_loads' = pg_loads + 1
  /\ page' = IF pg_kind = "legacy"
             THEN [page EXCEPT !.buildLogs = <<>>, !.currentStep = "", !.showLogs = TRUE]
             ELSE page
  /\ PageObserve(NoMsg, page', FALSE)
  /\ pg_started' = TRUE
  /\ UNCHANGED pg_socket

\* the hook, enabled, has an open socket
SocketOpens ==
  /\ Enabled(page)
  /\ ~pg_socket
  /\ pg_socket' = TRUE
  /\ PageObserve(NoMsg, page, FALSE)
  /\ UNCHANGED <<page, pg_loads, pg_started>>

\* the socket is closed (by the server, or by the hook's cleanup)
SocketCloses ==
  /\ pg_socket
  /\ pg_socket' = FALSE
  /\ PageObserve(NoMsg, page, FALSE)
  /\ UNCHANGED <<page, pg_loads, pg_started>>

\* onComplete of the job page also calls loadBuildStatus()
Reloads(m) == pg_kind = "job" /\ onmessage(m).cb = "onComplete"

\* a frame arrives on the open socket
PageMessage(m) ==
  /\ pg_socket
  /\ m \in (IF pg_kind = "job" THEN JobUpdates ELSE BuildMessages)
  /\ page' = Deliver(pg_kind, page, m)
  /\ LogLines(page') <= MaxLogLines
  /\ Reloads(m) => pg_loads < MaxLoads
  /\ pg_loads' = IF Reloads(m) THEN pg_loads + 1 ELSE pg_loads
  /\ PageObserve(m, page', FALSE)
  /\ UNCHANGED <<pg_socket, pg_started>>

\* the frame just delivered arrives once more (duplicate delivery)
PageMessageAgain ==
  /\ pg_socket
  /\ pg_lastMsg # NoMsg
  /\ ~pg_repeat
  /\ page' = Deliver(pg_kind, page, pg_lastMsg)
  /\ LogLines(page') <= MaxLogLines
  /\ Reloads(pg_lastMsg) => pg_loads < MaxLoads
  /\ pg_loads' = IF Reloads(pg_lastMsg) THEN pg_loads + 1 ELSE pg_loads
  /\ PageObserve(pg_lastMsg, pg_once, TRUE)
  /\ UNCHANGED <<pg_socket, pg_started>>

PageNext ==
  \/ \E snap \in Snapshots : LoadSucceeds(snap)
  \/ LoadFails
  \/ StartBuild
  \/ SocketOpens
  \/ SocketCloses
  \/ \E m \in JobUpdates \cup BuildMessages : PageMessage(m)
  \/ PageMessageAgain

(* ---------------------------- Step Detector ---------------------------- *)
\* the 10 LibreLane steps in pipeline order; index 0 is the first
LIBRELANE_STEPS ==
  <<"initialization", "synthesis", "floorplan", "placement", "cts", "routing",
    "gdsii", "drc", "lvs", "completion">>
NumSteps == Len(LIBRELANE_STEPS)
StepIndexes == 0..(NumSteps - 1)
StepName(k) == LIBRELANE_STEPS[k + 1]

\* text is a sequence of characters
\* trigger substrings per step; the steps the table does not list have none
step_patterns_Shifted(name) ==
  CASE name = "floorplan" -> {
      <<"p", "l", "a", "c", "e", "m", "e", "n", "t">>,
      <<"g", "l", "o", "b", "a", "l", " ", "p", "l", "a", "c", "e", "m", "e", "n", "t">>,
      <<"d", "e", "t", "a", "i", "l", "e", "d", " ", "p", "l", "a", "c", "e", "m", "e", "n", "t">>}
    [] name = "synthesis" -> {
      <<"r", "u", "n", "n", "i", "n", "g", " ", "s", "y", "n", "t", "h", "e", "s", "i", "s">>,
      <<"y", "o", "s", "y", "s">>,
      <<"s", "y", "n", "t", "h", "e", "s", "i", "z", "i", "n", "g">>}
    [] name = "routing" -> {
      <<"r", "o", "u", "t", "i", "n", "g">>,
      <<"g", "l", "o", "b", "a", "l", " ", "r", "o", "u", "t", "i", "n", "g">>,
      <<"d", "e", "t", "a", "i", "l", "e", "d", " ", "r", "o", "u", "t", "i", "n", "g">>}
    [] OTHER -> {}

step_patterns(name) ==
  CASE name = "synthesis" -> {
      <<"r", "u", "n", "n", "i", "n", "g", " ", "s", "y", "n", "t", "h", "e", "s", "i", "s">>,
      <<"y", "o", "s", "y", "s">>,
      <<"s", "y", "n", "t", "h", "e", "s", "i", "z", "i", "n", "g">>}
    [] name = "placement" -> {
      <<"p", "l", "a", "c", "e", "m", "e", "n", "t">>,
      <<"g", "l", "o", "b", "a", "l", " ", "p", "l", "a", "c", "e", "m", "e", "n", "t">>,
      <<"d", "e", "t", "a", "i", "l", "e", "d", " ", "p", "l", "a", "c", "e", "m", "e", "n", "t">>}
    [] name = "routing" -> {
      <<"r", "o", "u", "t", "i", "n", "g">>,
      <<"g", "l", "o", "b", "a", "l", " ", "r", "o", "u", "t", "i", "n", "g">>,
      <<"d", "e", "t", "a", "i", "l", "e", "d", " ", "r", "o", "u", "t", "i", "n", "g">>}
    [] OTHER -> {}

UpperCase == <<"A", "B", "C", "D", "E", "F", "G", "H", "I", "J", "K", "L", "M",
               "N", "O", "P", "Q", "R", "S", "T", "U", "V", "W", "X", "Y", "Z">>
LowerCase == <<"a", "b", "c", "d", "e", "f", "g", "h", "i", "j", "k", "l", "m",
               "n", "o", "p", "q", "r", "s", "t", "u", "v", "w", "x", "y", "z">>
\* str.lower() of one character and of a text
LowerChar(c) ==
  IF \E i \in 1..26 : UpperCase[i] = c
  THEN LowerCase[CHOOSE i \in 1..26 : UpperCase[i] = c]
  ELSE c
Lower(text) == [i \in 1..Len(text) |-> LowerChar(text[i])]

\* pattern in text
Contains(text, pattern) ==
  \E i \in 1..(Len(text) - Len(pattern) + 1) :
    SubSeq(text, i, i + Len(pattern) - 1) = pattern

\* the line contains one of the step's trigger substrings, whatever the case
Matches_CaseSensitive(line, k) ==
  \E pattern \in step_patterns(StepName(k)) : Contains(line, pattern)

Matches(line, k) ==
  \E pattern \in step_patterns(StepName(k)) : Contains(Lower(line), Lower(pattern))

Min(S) == CHOOSE k \in S : \A m \in S : k <= m

\* the first match wherever it lies, with no regard to previous_index
detect_librelane_step_Unthreaded(line, prev) ==
  LET found == {k \in StepIndexes : Matches(line, k)}
  IN  IF found = {} THEN None ELSE Some(Min(found))

\* scan the table forward from previous_index + 1; the first match wins
detect_librelane_step(line, prev) ==
  LET found == {k \in (prev + 1)..(NumSteps - 1) : Matches(line, k)}
  IN  IF found = {} THEN None ELSE Some(Min(found))

\* log lines the external process may write
ProcessOutput ==
  <<<<"s", "t", "a", "r", "t", "i", "n", "g", " ", "u", "p">>,
    <<"r", "u", "n", "n", "i", "n", "g", " ", "s", "y", "n", "t", "h", "e", "s", "i", "s", " ", "p", "a", "s", "s">>,
    <<"g", "l", "o", "b", "a", "l", " ", "p", "l", "a", "c", "e", "m", "e", "n", "t", " ", "b", "e", "g", "i", "n">>,
    <<"r", "o", "u", "t", "i", "n", "g", " ", "n", "e", "t", "s">>,
    <<"Y", "O", "S", "Y", "S", ":", " ", "P", "l", "a", "c", "e", "m", "e", "n", "t">>,
    <<"d", "e", "t", "a", "i", "l", "e", "d", " ", "r", "o", "u", "t", "i", "n", "g", " ", "a", "f", "t", "e", "r", " ", "p", "l", "a", "c", "e", "m", "e", "n", "t">>,
    <<"S", "y", "n", "t", "h", "e", "s", "i", "z", "i", "n", "g", " ", "b", "e", "f", "o", "r", "e", " ", "G", "l", "o", "b", "a", "l", " ", "R", "o", "u", "t", "i", "n", "g">>,
    <<"Y", "o", "s", "y", "s", " ", "P", "l", "a", "c", "e", "m", "e", "n", "t", " ", "a", "n", "d", " ", "R", "o", "u", "t", "i", "n", "g">>>>

\* the detector's answer for every line of ProcessOutput and previous_index
Detected ==
  [i \in 1..Len(ProcessOutput) |->
     [prev \in -1..(NumSteps - 1) |-> detect_librelane_step(ProcessOutput[i], prev)]]

(* -------------------------- Progress Publisher ------------------------- *)
\* "updates published every 10 log lines or on step changes"
PublishEvery == 10
\* lines the external process writes before it exits
MaxLines == 12

\* the lines of the start-up scenario, as indexes of ProcessOutput
ScriptLines == <<1, 2, 3, 4>>

TerminalStatuses == {"completed", "failed", "cancelled"}

NewJob ==
  [status |-> "pending", current_step |-> None, progress_percent |-> 0,
   completed_steps |-> <<>>, log_lines |-> 0]

\* append_job_logs: one more line in log_buffer
append_job_logs(j) == [j EXCEPT !.log_lines = @ + 1]

\* the names of the steps prev+1 .. k, in pipeline order
StepsUpTo(prev, k) == [i \in 1..(k - prev) |-> StepName(prev + i)]

progress_percent_of(completed) == (Len(completed) * 100) \div NumSteps

\* a transition that keeps only the steps it has just passed
update_build_progress_Overwrite(j, prev, k) ==
  LET completed == StepsUpTo(prev, k)
  IN  [j EXCEPT !.current_step = Some(StepName(k)),
                !.completed_steps = completed,
                !.progress_percent = progress_percent_of(completed)]

\* a transition to step k: the steps after prev up to k are completed
update_build_progress(j, prev, k) ==
  LET completed == j.completed_steps \o StepsUpTo(prev, k)
  IN  [j EXCEPT !.current_step = Some(StepName(k)),
                !.completed_steps = completed,
                !.progress_percent = progress_percent_of(completed)]

\* a limiter that holds a transition back like any other line
ShouldEmit_Throttled(transition, acc) == acc >= PublishEvery

\* emit now: always on a transition, otherwise once N lines have accumulated
ShouldEmit(transition, acc) == transition # None \/ acc >= PublishEvery

NoStep ==
  [op |-> "none", line |-> 0, prev |-> -1, transition |-> None, accumulated |-> 0,
   emit |-> FALSE, events |-> <<>>, published |-> FALSE]

WorkerObserve(o) ==
  /\ wk_last' = o
  /\ UNCHANGED <<hookVars, obsVars, bwsVars, pageVars, apiVars>>

WorkerInit ==
  /\ job = NewJob
  /\ previous_index = -1
  /\ accumulated = 0
  /\ emitted = <<>>
  /\ script = 0
  /\ wk_last = NoStep

\* run_build starts: the job is RUNNING and the status is published
run_build(brokerUp) ==
  /\ job.status = "pending"
  /\ job' = [job EXCEPT !.status = "running"]
  /\ WorkerObserve([NoStep EXCEPT !.op = "start", !.emit = TRUE,
                                  !.events = <<"status">>, !.published = brokerUp])
  /\ UNCHANGED <<previous_index, accumulated, emitted, script>>

\* one line of the process's output
ReadLine(i, brokerUp) ==
  /\ job.status = "running"
  /\ job.log_lines < MaxLines
  /\ LET transition == Detected[i][previous_index]
         acc == accumulated + 1
         emit == ShouldEmit(transition, acc)
         logged == append_job_logs(job)
     IN  /\ job' = IF transition # None
                   THEN update_build_progress(logged, previous_index, transition[1])
                   ELSE logged
         /\ previous_index' = IF transition # None THEN transition[1] ELSE previous_index
         /\ emitted' = IF transition # None THEN Append(emitted, transition[1]) ELSE emitted
         /\ accumulated' = IF emit THEN 0 ELSE acc
         /\ script' = IF /\ script >= 0
                         /\ script < Len(ScriptLines)
                         /\ i = ScriptLines[script + 1]
                      THEN script + 1 ELSE -1
         /\ WorkerObserve([op |-> "line", line |-> i, prev |-> previous_index,
                           transition |-> transition, accumulated |-> accumulated,
                           emit |-> emit,
                           events |-> IF transition # None THEN <<"step", "progress">>
                                      ELSE IF emit THEN <<"progress">> ELSE <<>>,
                           published |-> emit /\ brokerUp])

\* the process exits: terminal status, Completed or Error, and a final
\* broadcast whatever the limiter holds
ProcessExit(code, brokerUp) ==
  /\ job.status = "running"
  /\ job' = IF code = 0
            THEN [job EXCEPT !.status = "completed", !.progress_percent = 100]
            ELSE [job EXCEPT !.status = "failed"]
  /\ accumulated' = 0
  /\ WorkerObserve([NoStep EXCEPT !.op = "exit", !.prev = previous_index,
                                  !.accumulated = accumulated, !.emit = TRUE,
                                  !.events = <<IF code = 0 THEN "complete" ELSE "error",
                                               "progress">>,
                                  !.published = brokerUp])
  /\ UNCHANGED <<previous_index, emitted, script>>

WorkerNext ==
  \/ \E brokerUp \in BOOLEAN : run_build(brokerUp)
  \/ \E i \in 1..Len(ProcessOutput), brokerUp \in BOOLEAN : ReadLine(i, brokerUp)
  \/ \E code \in {0, 1}, brokerUp \in BOOLEAN : ProcessExit(code, brokerUp)

(* ------------------- Connection Multiplexer and Relay ------------------ *)
\* viewer connections that may turn up for the job
MaxViewers == 2
Viewers == 1..MaxViewers
\* step transitions the publisher records while the viewers watch
MaxUpdates == 1

\* the Job record the API process reads: status, current_step, progress
JobSnapshot(status, k) ==
  [status |-> status,
   current_step |-> IF k = 0 THEN None ELSE Some(StepName(k)),
   progress_percent |-> IF status = "completed" THEN 100 ELSE k * 10]
\* index of the current step of a running job's record
StepOf(rec) == rec.progress_percent \div 10

\* wire messages {type, data, timestamp}, by their type
IsTerminalEvent(type) == type \in {"complete", "error"}

NoBroadcast ==
  [event |-> None, snapshot |-> {}, todo |-> {}, delivered |-> {}, failed |-> {}]

\* registry of the job with the relay's count and subscription
Registry ==
  [active |-> active_connections, viewers |-> viewers, subscribed |-> subscribed]

\* register the connection; the first viewer makes the relay subscribe
register(r, c) ==
  [active |-> r.active \cup {c}, viewers |-> r.viewers + 1, subscribed |-> TRUE]

\* a removal that never tells the relay
manager_disconnect_Silent(r, c) ==
  IF c \notin r.active THEN r
  ELSE [r EXCEPT !.active = r.active \ {c}, !.viewers = r.viewers - 1]

\* remove the connection; when the set becomes empty the relay unsubscribes
manager_disconnect(r, c) ==
  IF c \notin r.active THEN r
  ELSE [active |-> r.active \ {c}, viewers |-> r.viewers - 1,
        subscribed |-> r.subscribed /\ r.active \ {c} # {}]

RECURSIVE manager_disconnect_all(_, _)
manager_disconnect_all(r, cs) ==
  IF cs = {} THEN r
  ELSE LET c == CHOOSE x \in cs : TRUE
       IN  manager_disconnect_all(manager_disconnect(r, c), cs \ {c})

\* a channel without subscriber carries nothing to this process
ApiCommit(r, ch) ==
  /\ active_connections' = r.active
  /\ viewers' = r.viewers
  /\ subscribed' = r.subscribed
  /\ channel' = IF r.subscribed THEN ch ELSE <<>>

\* a step of the API process leaves the rest alone
ApiOnly == UNCHANGED <<hookVars, obsVars, bwsVars, pageVars, workerVars>>

\* the connection receives an event
Receive(f, c, e) == IF f[c] = None THEN [f EXCEPT ![c] = Some(e)] ELSE f

ApiInit ==
  /\ active_connections = {}
  /\ conn = [c \in Viewers |-> "new"]
  /\ transport = [c \in Viewers |-> TRUE]
  /\ first = [c \in Viewers |-> None]
  /\ subscribed = FALSE
  /\ viewers = 0
  /\ store = JobSnapshot("running", 0)
  /\ channel = <<>>
  /\ broadcast = NoBroadcast
  /\ terminalDone = FALSE

\* a connect() that registers before it asks, and leaves a denied connection in
ApiConnect_RegisterFirst(c, allowed) ==
  /\ conn[c] = "new"
  /\ ApiCommit(register(Registry, c), channel)
  /\ conn' = [conn EXCEPT ![c] = IF allowed THEN "registered" ELSE "rejected"]
  /\ transport' = [transport EXCEPT ![c] = allowed]
  /\ ApiOnly
  /\ UNCHANGED <<first, store, broadcast, terminalDone>>

\* connect(job_id, connection, user): the authorization collaborator decides;
\* on success the connection is registered
ApiConnect(c, allowed) ==
  /\ conn[c] = "new"
  /\ IF allowed
     THEN /\ ApiCommit(register(Registry, c), channel)
          /\ conn' = [conn EXCEPT ![c] = "registered"]
          /\ UNCHANGED transport
     ELSE /\ conn' = [conn EXCEPT ![c] = "rejected"]
          /\ transport' = [transport EXCEPT ![c] = FALSE]
          /\ UNCHANGED <<active_connections, viewers, subscribed, channel>>
  /\ ApiOnly
  /\ UNCHANGED <<first, store, broadcast, terminalDone>>

\* connect(), after registering: the Connected event built from the Job record
SendConnected(c) ==
  /\ conn[c] = "registered"
  /\ IF transport[c]
     THEN /\ first' = Receive(first, c, "connected")
          /\ conn' = [conn EXCEPT ![c] = "connected"]
          /\ UNCHANGED <<active_connections, viewers, subscribed, channel>>
     ELSE /\ ApiCommit(manager_disconnect(Registry, c), channel)
          /\ conn' = [conn EXCEPT ![c] = "removed"]
          /\ UNCHANGED first
  /\ ApiOnly
  /\ UNCHANGED <<transport, store, broadcast, terminalDone>>

\* the viewer's transport breaks; the API process has not noticed yet
Drop(c) ==
  /\ conn[c] \in {"registered", "connected"}
  /\ transport[c]
  /\ transport' = [transport EXCEPT ![c] = FALSE]
  /\ ApiOnly
  /\ UNCHANGED <<active_connections, conn, first, subscribed, viewers,
                 store, channel, broadcast, terminalDone>>

\* disconnect(job_id, connection)
ApiDisconnect(c) ==
  /\ c \in active_connections
  /\ ApiCommit(manager_disconnect(Registry, c), channel)
  /\ conn' = [conn EXCEPT ![c] = "closed"]
  /\ transport' = [transport EXCEPT ![c] = FALSE]
  /\ ApiOnly
  /\ UNCHANGED <<first, store, broadcast, terminalDone>>

\* the relay takes a broker message and calls broadcast(job_id, event), which
\* snapshots the connection set under the lock
RelayReceive ==
  /\ broadcast.event = None
  /\ channel # <<>>
  /\ broadcast' = [event |-> Some(Head(channel)), snapshot |-> active_connections,
                   todo |-> active_connections, delivered |-> {}, failed |-> {}]
  /\ channel' = Tail(channel)
  /\ ApiOnly
  /\ UNCHANGED <<active_connections, conn, transport, first, subscribed,
                 viewers, store, terminalDone>>

\* a delivery loop that a failing send ends
BroadcastSend_AbortOnFailure(c) ==
  /\ c \in broadcast.todo
  /\ LET ok == transport[c]
     IN  /\ broadcast' = [broadcast EXCEPT
                            !.todo = IF ok THEN @ \ {c} ELSE {},
                            !.delivered = IF ok THEN @ \cup {c} ELSE @,
                            !.failed = IF ok THEN @ ELSE @ \cup {c}]
         /\ first' = IF ok THEN Receive(first, c, broadcast.event[1]) ELSE first
         /\ ApiOnly
  /\ UNCHANGED <<active_connections, conn, transport, subscribed, viewers,
                 store, channel, terminalDone>>

\* broadcast(): delivery to one connection of the snapshot, outside the lock
BroadcastSend(c) ==
  /\ c \in broadcast.todo
  /\ LET ok == transport[c]
     IN  /\ broadcast' = [broadcast EXCEPT
                            !.todo = @ \ {c},
                            !.delivered = IF ok THEN @ \cup {c} ELSE @,
                            !.failed = IF ok THEN @ ELSE @ \cup {c}]
         /\ first' = IF ok THEN Receive(first, c, broadcast.event[1]) ELSE first
         /\ ApiOnly
  /\ UNCHANGED <<active_connections, conn, transport, subscribed, viewers,
                 store, channel, terminalDone>>

\* broadcast() ends: the connections whose send failed are removed; after a
\* Completed or Error event all remaining connections of the job are closed
BroadcastEnd ==
  /\ broadcast.event # None
  /\ broadcast.todo = {}
  /\ LET terminal == IsTerminalEvent(broadcast.event[1])
         r1 == manager_disconnect_all(Registry, broadcast.failed)
         r2 == IF terminal THEN manager_disconnect_all(r1, r1.active) ELSE r1
         gone == active_connections \ r2.active
     IN  /\ ApiCommit(r2, channel)
         /\ conn' = [c \in Viewers |->
                        IF c \in gone \cap broadcast.failed THEN "removed"
                        ELSE IF c \in gone THEN "closed" ELSE conn[c]]
         /\ transport' = [c \in Viewers |-> IF c \in gone THEN FALSE ELSE transport[c]]
         /\ terminalDone' = (terminalDone \/ terminal)
  /\ broadcast' = NoBroadcast
  /\ ApiOnly
  /\ UNCHANGED <<first, store>>

\* the worker records a step transition and publishes it
PublisherUpdate(brokerUp) ==
  /\ store.status = "running"
  /\ StepOf(store) < MaxUpdates
  /\ store' = JobSnapshot("running", StepOf(store) + 1)
  /\ channel' = IF subscribed /\ brokerUp
                THEN Append(channel, "progress") ELSE channel
  /\ ApiOnly
  /\ UNCHANGED <<active_connections, conn, transport, first, subscribed,
                 viewers, broadcast, terminalDone>>

\* the process exits: terminal status, Completed or Error published
PublisherExit(code, brokerUp) ==
  /\ store.status = "running"
  /\ store' = JobSnapshot(IF code = 0 THEN "completed" ELSE "failed", StepOf(store))
  /\ channel' = IF subscribed /\ brokerUp
                THEN Append(channel, IF code = 0 THEN "complete" ELSE "error")
                ELSE channel
  /\ ApiOnly
  /\ UNCHANGED <<active_connections, conn, transport, first, subscribed,
                 viewers, broadcast, terminalDone>>

ApiNext ==
  \/ \E c \in Viewers, allowed \in BOOLEAN : ApiConnect(c, allowed)
  \/ \E c \in Viewers : SendConnected(c)
  \/ \E c \in Viewers : Drop(c)
  \/ \E c \in Viewers : ApiDisconnect(c)
  \/ RelayReceive
  \/ \E c \in Viewers : BroadcastSend(c)
  \/ BroadcastEnd
  \/ \E brokerUp \in BOOLEAN : PublisherUpdate(brokerUp)
  \/ \E code \in {0, 1}, brokerUp \in BOOLEAN : PublisherExit(code, brokerUp)

(* --------------------------- specifications ---------------------------- *)
\* the page on its own is the job page, not yet loaded
PageIdle == PageInit /\ pg_kind = "job"

Init == HookInit /\ BwsInit /\ PageIdle /\ WorkerInit /\ ApiInit

\* BuildWebSocket on its own: the other hook stays unused
InitBuildWebSocket == HookInit /\ ~enabled /\ ~token /\ BwsInit /\ PageIdle /\ WorkerInit /\ ApiInit

\* the pages on their own
InitBuildPage == HookInit /\ ~enabled /\ ~token /\ BwsInit /\ PageInit /\ WorkerInit /\ ApiInit

\* the worker process on its own
InitWorker == HookInit /\ ~enabled /\ ~token /\ BwsInit /\ PageIdle /\ WorkerInit /\ ApiInit

Next ==
  \/ \E e \in BOOLEAN, fresh \in BOOLEAN : Render(e, fresh)
  \/ Unmount
  \/ Reconnect
  \/ OpenRef
  \/ OpenStray
  \/ \E code \in {NormalClosure} \cup AbnormalCodes : CloseRef(code)
  \/ \E kind \in StrayKinds, code \in {NormalClosure} \cup AbnormalCodes : CloseStray(kind, code)
  \/ TimerRef
  \/ TimerStray
  \/ Tick
  \/ \E m \in Frames : Message(m)

Spec == Init /\ [][Next]_vars

SpecBuildWebSocket == InitBuildWebSocket /\ [][BwsNext]_vars

SpecBuildPage == InitBuildPage /\ [][PageNext]_vars

SpecWorker == InitWorker /\ [][WorkerNext]_vars

\* either page is mounted, with its client: the job page with useJobWebSocket,
\* its predecessor with useBuildWebSocket and BuildWebSocket
InitClients ==
  /\ HookInit /\ BwsInit /\ PageInit /\ WorkerInit /\ ApiInit
  /\ pg_kind = "legacy" => (~enabled /\ ~token)

ClientsNext ==
  \/ pg_kind = "job" /\ Next
  \/ pg_kind = "legacy" /\ BwsNext

SpecClients == InitClients /\ [][ClientsNext]_vars

\* the API process on its own
InitApi == HookInit /\ ~enabled /\ ~token /\ BwsInit /\ PageIdle /\ WorkerInit /\ ApiInit

SpecApi == InitApi /\ [][ApiNext]_vars

\* the API process carries on with what it has begun: a handshake, a broker
\* message, a broadcast; viewers and the worker are under no obligation
ApiFairness ==
  /\ \A c \in Viewers : WF_vars(SendConnected(c))
  /\ \A c \in Viewers : WF_vars(BroadcastSend(c))
  /\ WF_vars(RelayReceive)
  /\ WF_vars(BroadcastEnd)

SpecApiFair == InitApi /\ [][ApiNext]_vars /\ ApiFairness

(* ------------------- properties of useJobWebSocket --------------------- *)
NothingInFlight ==
  /\ wsRef = "null"
  /\ \A k \in StrayKinds : strays[k] = 0
  /\ reconnectTimeoutRef # "pending"
  /\ strayTimers = 0

C2_ManualReconnectResetsCounter ==
  [][(reconnectAttempts = maxReconnectAttempts /\ lastOp' = "reconnect" /\ lastNew')
       => reconnectAttempts' = 0]_vars

\* C3: after disconnect() (the subsystem is disabled or unmounted) and until
\* connect is called explicitly again, no pending reconnect timer is left and
\* the hook holds no connection.
C3_DisconnectSuppressesReconnect ==
  (~mounted \/ ~enabled) =>
    /\ wsRef = "null"
    /\ reconnectTimeoutRef # "pending"

\* C5: a reconnect is scheduled only by an abnormal closure (code other than
\* 1000) delivered while the subsystem is enabled; a normal closure and any
\* closure delivered after the subsystem was disabled schedule nothing.
C5_ReconnectOnlyAbnormalWhileEnabled ==
  [][(lastOp' = "close" /\ reconnectAttempts' = reconnectAttempts + 1)
       => (lastCode' # 1000 /\ enabled)]_vars

\* C7: at a keep-alive tick every open connection of the hook is sent a
\* 'ping' frame, and a frame is sent only on an open socket.
C7_HeartbeatOnOpenConnection ==
  lastOp = "tick" =>
    /\ lastPing => wsRef = "OPEN"
    /\ wsRef = "OPEN" => lastPing
    /\ strays["OPEN"] = 0

\* C10: the reconnect delays grow exponentially: each delay is the previous
\* one times a constant factor greater than one.
C10_ExponentialBackoff ==
  /\ Len(delays) <= 5
  /\ \A i \in 2..Len(delays) : delays[i] > delays[i - 1]
  /\ \A i \in 3..Len(delays) : delays[i] * delays[i - 2] = delays[i - 1] * delays[i - 1]

\* C22: the hook has at most one socket that is connecting or open, and wsRef
\* refers to it: no connecting or open socket exists outside wsRef, whatever
\* the interleaving of connect(), disconnect(), timers and socket events.
C22_SingleReferencedSocket ==
  /\ strays["CONNECTING"] = 0
  /\ strays["OPEN"] = 0

\* C23: while enabled stays true, the re-render that follows the delivery of
\* an event to a callback leaves the open socket of the hook open: the hook
\* does not disconnect and reconnect because of the delivery.
C23_DeliveryKeepsSocket ==
  [][(/\ lastOp = "message" /\ lastFrame.cb # "none"
      /\ wsRef = "OPEN" /\ enabled
      /\ lastOp' = "render" /\ enabled')
       => (wsRef' = "OPEN" /\ strays' = strays)]_vars

\* C26: while the component is mounted, isConnected is true exactly when the
\* socket wsRef refers to is open: never true without an open referenced
\* socket, never false while the referenced socket is open.
C26_IsConnectedTracksSocket ==
  mounted => (isConnected <=> wsRef = "OPEN")

(* -------------------- properties of BuildWebSocket --------------------- *)
\* C4: after disconnect() the instance never constructs a WebSocket, also
\* when a reconnect timer was pending at the time of the call.
C4_NoSocketAfterDisconnect ==
  ~bws_shouldReconnect => ~bws_lastNew

\* C6: a close event with the normal closure code schedules no reconnect.
C6_NormalClosureNoReconnect ==
  [][(bws_lastOp' = "close" /\ bws_lastCode' = 1000)
       => (bws_timers' = bws_timers /\ bws_reconnectAttempts' = bws_reconnectAttempts)]_vars

\* C27: useBuildWebSocket's isConnected is true only while the connection of
\* its BuildWebSocket is open (BuildWebSocket.isConnected()): it is false
\* after a close, during a reconnect wait and after the attempts ran out.
C27_LegacyIsConnectedTracksSocket ==
  ubw_isConnected => bws_ws = "OPEN"

(* ----------------------- properties of BuildPage ----------------------- *)
\* C8: a progress event delivered twice in a row leaves the job page in the
\* state the first delivery produced, and after a progress event the page's
\* progress_percent, current_step and completed_steps are those of the event
\* (an absent current_step shows as '', absent completed_steps as []),
\* whatever they were before.
C8_ProgressEventIdempotent ==
  LET m == pg_lastMsg
      bs == page.buildStatus
  IN (pg_kind = "job" /\ m.type = "progress") =>
       /\ pg_repeat => page = pg_once
       /\ (m.data.progress # None /\ bs # NoStatus) =>
            /\ bs.progress_data # NoProgress
            /\ bs.progress_data.progress_percent = m.data.progress[1]
            /\ bs.progress_data.current_step =
                 (IF m.data.current_step = None THEN "" ELSE m.data.current_step[1])
            /\ bs.current_step = Some(bs.progress_data.current_step)
            /\ bs.progress_data.completed_steps =
                 (IF m.data.completed_steps = None THEN <<>> ELSE m.data.completed_steps[1])

\* a progress event arrives twice on a page that showed the server's snapshot
\* (45 %, synthesis) and now shows the event's values
C8_Witness ==
  /\ pg_kind = "job"
  /\ pg_repeat
  /\ pg_lastMsg.type = "progress"
  /\ pg_lastMsg.data.progress = Some(0)
  /\ pg_lastMsg.data.current_step = None
  /\ page.buildStatus # NoStatus
  /\ page.buildStatus.progress_data # NoProgress
  /\ page.buildStatus.progress_data.steps_info = "server"
  /\ page.buildStatus.progress_data.progress_percent = 0

\* C9 as stated: whatever the event, delivering it twice in a row leaves the
\* client state that one delivery produced.
C9_EveryEventIdempotent ==
  pg_repeat => page = pg_once

\* a log frame that reaches the page's log callback
IsLogLine(m) ==
  /\ m.valid
  /\ m.type = "log"
  /\ Truthy(IF pg_kind = "job" THEN m.data.log_line ELSE m.data.message)

\* C9 amended: a status, progress, step, complete or error event delivered
\* twice in a row leaves the client state that one delivery produced; a log
\* event is a delta: the second delivery appends the line once more and
\* changes nothing else.
C9_NonLogEventsIdempotent ==
  pg_repeat =>
    IF IsLogLine(pg_lastMsg)
    THEN IF pg_kind = "legacy"
         THEN page = [pg_once EXCEPT !.buildLogs = Append(@, pg_lastMsg.data.message[1])]
         ELSE IF pg_once.buildStatus = NoStatus THEN page = pg_once
         ELSE page = [pg_once EXCEPT !.buildStatus.logs =
                         Some(pg_once.buildStatus.logs[1] \o <<pg_lastMsg.data.log_line[1]>>)]
    ELSE page = pg_once

\* a log line delivered twice to the job page, shown twice
C9_Witness ==
  /\ pg_kind = "job"
  /\ pg_repeat
  /\ IsLogLine(pg_lastMsg)
  /\ page.buildStatus # NoStatus
  /\ page.buildStatus.logs = Some(<<"line", "line">>)

\* a frame that carries every field of its type's data shape
WellFormed(m) ==
  /\ m.valid
  /\ CASE m.type = "status" -> m.data.status # None
       [] m.type = "progress" -> /\ m.data.progress # None
                                 /\ m.data.current_step # None
                                 /\ m.data.completed_steps # None
       [] m.type = "log" -> m.data.log_line # None
       [] m.type = "step" -> m.data.step_name # None /\ m.data.step_label # None
       [] m.type = "complete" -> m.data.status # None /\ m.data.message # None
       [] m.type = "error" -> m.data.error_message # None
       [] OTHER -> TRUE

\* C21: every well-formed frame reaches exactly the callback of its type with
\* the frame's data fields as arguments, also when a field is 0 or the empty
\* string; 'connected' and 'pong' frames invoke no callback.
C21_DispatchByType ==
  LET m == pg_lastMsg
      d == m.data
  IN (pg_kind = "job" /\ WellFormed(m)) =>
       pg_call =
         CASE m.type = "status" -> [cb |-> "onStatusChange", args |-> <<d.status[1]>>]
           [] m.type = "progress" ->
                [cb |-> "onProgressUpdate",
                 args |-> <<d.progress[1], d.current_step[1], d.completed_steps[1]>>]
           [] m.type = "log" -> [cb |-> "onLogUpdate", args |-> <<d.log_line[1]>>]
           [] m.type = "step" ->
                [cb |-> "onStepChange", args |-> <<d.step_name[1], d.step_label[1]>>]
           [] m.type = "complete" -> [cb |-> "onComplete", args |-> <<d.status[1], d.message>>]
           [] m.type = "error" -> [cb |-> "onError", args |-> <<d.error_message[1]>>]
           [] OTHER -> NoCall

\* the page shows a terminal status
ShowsTerminal(pg) ==
  pg.buildStatus # NoStatus /\ pg.buildStatus.status \in {"completed", "failed", "cancelled"}

\* C25: once the page's state holds a terminal status, no event received on
\* the live connection changes the displayed status to a non-terminal value.
C25_TerminalStatusSticks ==
  [][(ShowsTerminal(page) /\ pg_lastMsg' # NoMsg) => ShowsTerminal(page')]_vars

\* a step the page takes without the viewer doing anything: an answer to a
\* request in flight, or an event of the hook's socket
PageProgress ==
  \/ \E snap \in Snapshots : LoadSucceeds(snap)
  \/ LoadFails
  \/ SocketOpens
  \/ SocketCloses
  \/ \E m \in JobUpdates : PageMessage(m)
  \/ PageMessageAgain

\* C24: after a build was started from the page, a page that shows the job as
\* pending is on its way to a live connection: a status request is in flight
\* or a socket event is due, so that it gets there without the viewer acting.
C24_PendingBuildGetsConnection ==
  (pg_kind = "job" /\ pg_started /\ page.buildStatus.status = "pending")
    => ENABLED PageProgress

(* --------------------- properties of both clients ---------------------- *)
\* C28: in useJobWebSocket and in BuildWebSocket a frame that is not valid
\* JSON is ignored: no callback runs, the sockets stay as they are (the one
\* that received the frame stays open), and the reconnect attempt counter,
\* the timers and the connection state the client reports do not change.
C28_MalformedFrameIgnored ==
  /\ [][(lastOp' = "message" /\ ~lastFrame'.valid)
         => /\ lastFrame'.cb = "none"
            /\ wsRef' = wsRef /\ strays' = strays
            /\ wsRef' = "OPEN" \/ strays'["OPEN"] > 0
            /\ reconnectAttempts' = reconnectAttempts
            /\ reconnectTimeoutRef' = reconnectTimeoutRef /\ strayTimers' = strayTimers
            /\ isConnected' = isConnected /\ connectionError' = connectionError]_vars
  /\ [][(bws_lastOp' = "message" /\ ~bws_lastFrame'.valid)
         => /\ bws_lastFrame'.calls = 0
            /\ bws_ws' = "OPEN" /\ bws_ws = "OPEN" /\ bws_strays' = bws_strays
            /\ bws_reconnectAttempts' = bws_reconnectAttempts
            /\ bws_timers' = bws_timers /\ bws_shouldReconnect' = bws_shouldReconnect
            /\ ubw_isConnected' = ubw_isConnected
            /\ ubw_lastMessage' = ubw_lastMessage]_vars

\* BuildWebSocket, connected and subscribed, has just dropped a malformed frame
C28_Witness ==
  /\ pg_kind = "legacy"
  /\ bws_lastOp = "message"
  /\ ~bws_lastFrame.valid
  /\ bws_callbacks = 1
  /\ bws_ws = "OPEN"
  /\ ubw_isConnected
  /\ ubw_lastMessage = "connected"

\* C29: in both clients the reconnect attempt counter stays within
\* 0..maxReconnectAttempts, it is 0 whenever the client reports that it is
\* connected (isConnected of useJobWebSocket, isConnected() of
\* BuildWebSocket), and only an open event takes it back to 0.
C29_AttemptCounter ==
  /\ [](/\ reconnectAttempts \in 0..maxReconnectAttempts
        /\ bws_reconnectAttempts \in 0..bws_maxReconnectAttempts
        /\ isConnected => reconnectAttempts = 0
        /\ bws_ws = "OPEN" => bws_reconnectAttempts = 0)
  /\ [][(reconnectAttempts # 0 /\ reconnectAttempts' = 0) => lastOp' = "open"]_vars
  /\ [][(bws_reconnectAttempts # 0 /\ bws_reconnectAttempts' = 0)
         => bws_lastOp' = "open"]_vars

\* BuildWebSocket has used up its attempts: the counter is at its maximum
\* and the last close event scheduled nothing
C29_Witness ==
  /\ pg_kind = "legacy"
  /\ bws_lastOp = "close"
  /\ bws_shouldReconnect
  /\ bws_reconnectAttempts = bws_maxReconnectAttempts
  /\ bws_ws = "null"
  /\ bws_timers = 0

(* ---------------------- properties of the worker ----------------------- *)
\* the steps each line of ProcessOutput names, read off its text
NamedSteps == <<{}, {1}, {3}, {5}, {1, 3}, {3, 5}, {1, 5}, {1, 3, 5}>>

\* C11: with previous_index threaded through the calls from -1 on, the step
\* indices emitted never decrease, current_step follows them and never moves
\* to a lower index, and a line that names only steps at or below
\* previous_index causes no transition.
C11_DetectorMonotone ==
  /\ \A i \in 1..Len(emitted) : \A n \in i..Len(emitted) : emitted[i] <= emitted[n]
  /\ job.current_step =
       IF previous_index = -1 THEN None ELSE Some(StepName(previous_index))
  /\ wk_last.op = "line" =>
       /\ previous_index >= wk_last.prev
       /\ (\A k \in NamedSteps[wk_last.line] : k <= wk_last.prev) =>
            (wk_last.transition = None /\ previous_index = wk_last.prev)

\* a line naming only steps already passed has just been fed
C11_Witness ==
  /\ wk_last.op = "line"
  /\ NamedSteps[wk_last.line] # {}
  /\ \A k \in NamedSteps[wk_last.line] : k <= wk_last.prev
  /\ Len(emitted) >= 2

C20_LowestMatchBeyondPrevious ==
  wk_last.op = "line" =>
    LET beyond == {k \in NamedSteps[wk_last.line] : k > wk_last.prev}
    IN  wk_last.transition = IF beyond = {} THEN None ELSE Some(Min(beyond))

\* "Yosys Placement and Routing" fed after synthesis: placement wins
C20_Witness ==
  /\ wk_last.op = "line"
  /\ wk_last.line = 8
  /\ wk_last.prev = 1
  /\ wk_last.transition = Some(3)

\* C18: a line that causes a transition is emitted at once, whatever the
\* limiter has accumulated; a line without a transition is emitted only when
\* N lines have accumulated since the last emission.
C18_EmitOnTransitionElseThrottled ==
  wk_last.op = "line" =>
    /\ wk_last.transition # None => (wk_last.emit /\ wk_last.events # <<>>)
    /\ (wk_last.transition = None /\ wk_last.emit) =>
         wk_last.accumulated + 1 >= PublishEvery
    /\ wk_last.emit <=> accumulated = 0

\* a transition emitted with the limiter part-way
C18_Witness ==
  /\ wk_last.op = "line"
  /\ wk_last.transition # None
  /\ wk_last.accumulated \in 1..(PublishEvery - 2)
  /\ wk_last.emit

IsPrefix(a, b) == Len(a) <= Len(b) /\ SubSeq(b, 1, Len(a)) = a

C13_ConnectedIsFirstEvent ==
  \A c \in Viewers : conn[c] = "connected" => first[c] = Some("connected")

\* C14: a connection the authorization collaborator denies is never in the
\* job's connection set and never receives an event, and its rejection leaves
\* the connection set, the relay's count and subscription, the channel and
\* the broadcast in progress as they were.
C14_DenialMutatesNothing ==
  /\ [](\A c \in Viewers :
          conn[c] = "rejected" =>
            /\ c \notin active_connections
            /\ c \notin broadcast.snapshot
            /\ first[c] = None)
  /\ [][(\E c \in Viewers : conn[c] = "new" /\ conn'[c] = "rejected") =>
          UNCHANGED <<active_connections, viewers, subscribed, channel, broadcast,
                      first, store>>]_vars

\* a viewer was denied while another one watches the job
C14_Witness ==
  \E c, d \in Viewers :
    /\ conn[c] = "rejected"
    /\ d \in active_connections
    /\ first[d] = Some("connected")
    /\ subscribed

\* C15: a broadcast in which exactly one connection of the snapshot fails has
\* delivered the event to all the others, ends with the failing connection out
\* of the registry, and no broadcast that starts later has a removed
\* connection in its snapshot.
C15_BroadcastSurvivesOneFailure ==
  /\ [][(/\ broadcast.event # None
         /\ broadcast'.event = None
         /\ Cardinality(broadcast.failed) = 1) =>
          /\ broadcast.delivered = broadcast.snapshot \ broadcast.failed
          /\ broadcast.failed \cap active_connections' = {}]_vars
  /\ [][(broadcast.event = None /\ broadcast'.event # None) =>
          \A c \in broadcast'.snapshot : conn[c] \in {"registered", "connected"}]_vars

\* every send of a broadcast is done, one failed and another one went through
C15_Witness ==
  /\ broadcast.event # None
  /\ broadcast.todo = {}
  /\ Cardinality(broadcast.failed) = 1
  /\ Cardinality(broadcast.delivered) >= 1

C16_ClosedAfterTerminal ==
  /\ \A c \in Viewers :
       [](terminalDone /\ c \in active_connections => <>(c \notin active_connections))
  /\ [][terminalDone => broadcast'.delivered \subseteq broadcast.delivered]_vars

====
